---- MODULE Spec2Model ----
(***************************************************************************)
(* Model of src/source/main.ts of FragmentsViewer: the model load          *)
(* sequence (LoadModelFromBuffer, LoadModelFromUrl, LoadModelFromUrlHash,  *)
(* LoadModelInternal), the camera framer (FitModelToWindow), the status    *)
(* indicator (ProgressBar) and the event wiring of Init.                   *)
(*                                                                         *)
(* Every `await` of the source is a suspension point: the code up to the   *)
(* await runs in the step that reaches it, the code after it runs in the   *)
(* step that resumes it.  The external collaborators (fetch, the fragments *)
(* decoder, the camera controls) answer each call with one of the outcomes *)
(* the call can have.                                                      *)
(*                                                                         *)
(* Numbers are fixed point with Scale units per 1.0; a vector is a triple. *)
(***************************************************************************)
EXTENDS Integers, Sequences, FiniteSets, TLC

\* ------------------------------------------------------------------ bounds
\* loads (drop handlers and url loads) that may be started in one run
MaxLoads == 2
\* clicks on "Fit to window" that reach getBoxes in one run
MaxFits == 1
\* boxes a model reports when the framer is taken on its own
MaxBoxes == 2
\* nodes the decoding service adds under model roots in SpecScene
MaxChildren == 2

\* ------------------------------------------------------- fixed-point numbers
Scale == 10 * 10
\* stands for Infinity in an empty THREE.Box3
Infinity == 1000 * Scale
\* denominator of the sine table
SinScale == 100 * 100

Min2(a, b) == IF a < b THEN a ELSE b
Max2(a, b) == IF a > b THEN a ELSE b

RECURSIVE SqrtSearch(_, _, _)
\* the largest r in lo..hi with r * r <= n
SqrtSearch(n, lo, hi) ==
    IF lo >= hi THEN lo
    ELSE LET mid == (lo + hi + 1) \div 2
         IN  IF mid * mid <= n THEN SqrtSearch(n, mid, hi)
             ELSE SqrtSearch(n, lo, mid - 1)

\* Math.sqrt on integers, rounded down
Sqrt(n) == SqrtSearch(n, 0, Min2(n, 40000))

\* division rounding toward zero, as a float division followed by truncation
Quot(a, b) == IF a >= 0 THEN a \div b ELSE -((-a) \div b)

\* ------------------------------------------------------------------ vectors
Vec(x, y, z) == <<x * Scale, y * Scale, z * Scale>>
VAdd(a, b) == <<a[1] + b[1], a[2] + b[2], a[3] + b[3]>>
VSub(a, b) == <<a[1] - b[1], a[2] - b[2], a[3] - b[3]>>
VMin(a, b) == <<Min2(a[1], b[1]), Min2(a[2], b[2]), Min2(a[3], b[3])>>
VMax(a, b) == <<Max2(a[1], b[1]), Max2(a[2], b[2]), Max2(a[3], b[3])>>
LengthSq(a) == a[1] * a[1] + a[2] * a[2] + a[3] * a[3]
\* THREE.Vector3.length, in fixed point
Length(a) == Sqrt(LengthSq(a))
\* THREE.Vector3.multiplyScalar by the fixed-point scalar s
MultiplyScalar(a, s) ==
    <<Quot(a[1] * s, Scale), Quot(a[2] * s, Scale), Quot(a[3] * s, Scale)>>
\* THREE.Vector3.normalize: divideScalar (length () || 1), so the zero vector
\* stays the zero vector
Normalize(a) ==
    LET len == Length(a)
    IN  IF len = 0 THEN a
        ELSE <<Quot(a[1] * Scale, len), Quot(a[2] * Scale, len),
               Quot(a[3] * Scale, len)>>

\* ------------------------------------------------- bounding box and sphere
\* a box reported by model.getBoxes
BoxOf(lo, hi) == [min |-> lo, max |-> hi]

EmptyBox3 ==
    [min |-> <<Infinity, Infinity, Infinity>>,
     max |-> <<-Infinity, -Infinity, -Infinity>>]

\* the framer fed with the centre of each box instead of its two corners
BoxCenterPoints(boxes) ==
    [i \in 1..Len(boxes) |->
        <<Quot(boxes[i].min[1] + boxes[i].max[1], 2),
          Quot(boxes[i].min[2] + boxes[i].max[2], 2),
          Quot(boxes[i].min[3] + boxes[i].max[3], 2)>>]

\* lines 37-41: each box contributes its min and its max corner
BoxMinMaxPoints(boxes) ==
    [i \in 1..(2 * Len(boxes)) |->
        IF i % 2 = 1 THEN boxes[(i + 1) \div 2].min ELSE boxes[i \div 2].max]

RECURSIVE ExpandByPoints(_, _, _)
\* THREE.Box3.expandByPoint over points[i..]
ExpandByPoints(box, points, i) ==
    IF i > Len(points) THEN box
    ELSE ExpandByPoints([min |-> VMin(box.min, points[i]),
                         max |-> VMax(box.max, points[i])], points, i + 1)

\* new THREE.Box3 ().setFromPoints (points): makeEmpty, then expandByPoint
SetFromPoints(points) == ExpandByPoints(EmptyBox3, points, 1)

\* THREE.Box3.isEmpty
IsEmpty(box) ==
    \/ box.max[1] < box.min[1]
    \/ box.max[2] < box.min[2]
    \/ box.max[3] < box.min[3]

\* THREE.Box3.getBoundingSphere: an empty box gives the empty sphere (centre
\* 0, radius -1), any other box its centre and half of its diagonal.
\* radiusSq is the exact square of the radius, radius its rounded root.
GetBoundingSphere(box) ==
    IF IsEmpty(box)
    THEN [center |-> <<0, 0, 0>>, radius |-> -Scale, radiusSq |-> Scale * Scale]
    ELSE LET size == VSub(box.max, box.min)
             sum == VAdd(box.min, box.max)
         IN  [center |-> <<Quot(sum[1], 2), Quot(sum[2], 2), Quot(sum[3], 2)>>,
              radius |-> Quot(Sqrt(LengthSq(size)), 2),
              radiusSq |-> Quot(LengthSq(size), 4)]

\* lines 36-43 of FitModelToWindow: the framing sphere of a list of boxes
BoundingSphereOfBoxes(boxes) ==
    GetBoundingSphere(SetFromPoints(BoxMinMaxPoints(boxes)))

\* lines 46-49: the effective half field of view, in fixed-point degrees
FieldOfView(cam) ==
    LET half == Quot(cam.fov, 2)
    IN  IF cam.aspect < Scale THEN Quot(half * cam.aspect, Scale) ELSE half

\* Math.sin (THREE.MathUtils.degToRad (a)) * SinScale for the half angles the
\* modelled cameras have (a in fixed-point degrees)
SinDeg(a) ==
    CASE a = 30 * Scale -> 5000
      [] a = 15 * Scale -> 2588

\* lines 43-60 of FitModelToWindow: the camera after the framer has applied
\* the pose computed from `boxes`
FitCamera(cam, boxes) ==
    LET boundingSphere == BoundingSphereOfBoxes(boxes)
        center == boundingSphere.center
        centerToEye == Normalize(VSub(cam.position, center))
        distance == Quot(boundingSphere.radius * SinScale, SinDeg(FieldOfView(cam)))
        eye == VAdd(center, MultiplyScalar(centerToEye, distance))
    IN  [cam EXCEPT !.near = Scale,
                    !.far = distance * 100,
                    !.position = eye,
                    !.target = center]

\* -------------------------------------------------------------------- state
VARIABLES
    booted,     \* Init has reached line 216 (its call of LoadModelFromUrlHash)
    loads,      \* the drop handlers and url loads started so far, in order
    fits,       \* the framer runs started by clicks that reached getBoxes
    slot,       \* fragments.models.list.get (ModelIdentifier); 0 is undefined
    models,     \* the decoded models that have not been disposed
    display,    \* progressDiv.style.display
    text,       \* progressDiv.innerHTML
    camera,     \* world.camera: pose, projection, controls
    fitLocals,  \* boxes and boundingSphere of the framer's last application
    lastOp      \* the last event dispatched to a handler, with its input

vars == <<booted, loads, fits, slot, models, display, text, camera, fitLocals, lastOp>>

\* line 6
ModelIdentifier == "model"

\* ------------------------------------------------------------------- inputs
\* window.location.hash: empty, or '#' followed by a path
Hashes == {<<>>, <<"#", "a">>, <<"#", "#", "a">>}

\* ev.dataTransfer.items of a drop: the kind of each item
Payloads == {<<>>, <<"file">>, <<"string">>, <<"file", "file">>}

\* what model.getBoxes reports for a decoded model
UnitBox == BoxOf(Vec(-1, -1, -1), Vec(1, 1, 1))
FarBox == BoxOf(Vec(1, 1, 1), Vec(3, 3, 3))
PointBox == BoxOf(Vec(2, 0, 0), Vec(2, 0, 0))
BoxLists == {<<>>, <<UnitBox, FarBox>>, <<PointBox>>}

\* the camera SimpleCamera constructs, after line 133
InitialCamera ==
    [position |-> Vec(100, 100, 100), target |-> Vec(0, 0, 0),
     near |-> Scale, far |-> 1000 * Scale,
     fov |-> 60 * Scale, aspect |-> 2 * Scale, controls |-> TRUE]

NoFit == [boxes |-> <<>>, boundingSphere |-> GetBoundingSphere(EmptyBox3), applied |-> FALSE]

Init ==
    /\ booted = FALSE
    /\ loads = <<>>
    /\ fits = <<>>
    /\ slot = 0
    /\ models = {}
    /\ display \in {"none", "inherit"}
    /\ text = ""
    /\ camera = InitialCamera
    /\ fitLocals = NoFit
    /\ lastOp = <<"none">>

\* --------------------------------------------------------------- ProgressBar
\* lines 12-16 and 18-21: new ProgressBar () followed by SetText (t)
ShowProgress(t) ==
    /\ display' = "inherit"
    /\ text' = t

\* lines 23-26
Hide ==
    /\ display' = "none"
    /\ text' = text

\* ------------------------------------------------------------ load records
\* a load suspended on its first await, fragments.disposeModel (lines 82, 93):
\* disposeModel has looked up the model to dispose, `target`
\* calls counts the calls the load has issued: disposeModel, fetch,
\* fragments.load, FitModelToWindow; decodedAt is the rank of its decode among
\* the decodes that have resolved (0: none yet); children are the nodes under its
\* model's root, each given by the side its materials render
NoCalls == [dispose |-> 0, fetch |-> 0, decode |-> 0, framer |-> 0]

NewLoad(kind, hash, url) ==
    [kind |-> kind, hash |-> hash, url |-> url, pc |-> "disposing",
     target |-> slot, pose0 |-> camera, boxes |-> <<>>, failed |-> "",
     framed |-> FALSE, calls |-> [NoCalls EXCEPT !.dispose = 1],
     decodedAt |-> 0, children |-> <<>>]

SetPc(l, pc) == [loads EXCEPT ![l].pc = pc]
Fail(l, what) == [loads EXCEPT ![l].pc = "done", ![l].failed = what]

\* the boxes model.getBoxes reports for model m
BoxesOfModel(m) == IF m \in DOMAIN loads THEN loads[m].boxes ELSE <<>>

\* ------------------------------------------------------- FitModelToWindow
\* the guard of line 32 with && in place of ||
FitReturnsEarlyBoth(model, controls) == model = 0 /\ ~controls

\* line 32: the framer returns at once
FitReturnsEarly(model, controls) == model = 0 \/ ~controls

\* lines 36-61, after getBoxes has answered with the boxes of model m
ApplyFit(m) ==
    /\ camera' = FitCamera(camera, BoxesOfModel(m))
    /\ fitLocals' = [boxes |-> BoxesOfModel(m),
                     boundingSphere |-> BoundingSphereOfBoxes(BoxesOfModel(m)),
                     applied |-> TRUE]

\* ----------------------------------------------------------- load triggers
\* lines 91-93: LoadModelFromUrl up to its await of disposeModel
LoadModelFromUrl(hash, url) ==
    /\ Len(loads) < MaxLoads
    /\ loads' = Append(loads, NewLoad("url", hash, url))

\* substring taking its argument as a 1-based position
SubstringOneBased(str, start) == SubSeq(str, start, Len(str))

\* String.prototype.substring (start): the characters from index start on
Substring(str, start) == SubSeq(str, start + 1, Len(str))

\* LoadModelFromUrlHash without the test of line 111
LoadModelFromUrlHashUnguarded(hash) == LoadModelFromUrl(hash, SubSeq(hash, 2, Len(hash)))

\* lines 109-115
LoadModelFromUrlHash(hash) ==
    IF Len(hash) = 0
    THEN loads' = loads
    ELSE LoadModelFromUrl(hash, Substring(hash, 1))

\* line 216: Init calls LoadModelFromUrlHash with the hash the page opened with
AppStart(hash) ==
    /\ ~booted
    /\ booted' = TRUE
    /\ lastOp' = <<"AppStart", hash>>
    /\ LoadModelFromUrlHash(hash)
    /\ UNCHANGED <<fits, slot, models, display, text, camera, fitLocals>>

\* lines 192-194
HashChange(hash) ==
    /\ booted
    /\ lastOp' = <<"HashChange", hash>>
    /\ LoadModelFromUrlHash(hash)
    /\ UNCHANGED <<booted, fits, slot, models, display, text, camera, fitLocals>>

\* the test of line 174 rejecting only an empty payload
DropRejectedWhenEmpty(items) == Len(items) = 0

\* line 174: the drop handler returns without reading the payload
DropRejected(items) == Len(items) # 1

\* lines 170-184: a drop whose ev.dataTransfer.items are `items`, each a file
\* or a string; the handler returns (line 175 or 181), or suspends on
\* file.arrayBuffer (line 184)
Drop(items) ==
    /\ booted
    /\ lastOp' = <<"Drop", items>>
    /\ IF DropRejected(items) \/ items[1] # "file"
       THEN loads' = loads
       ELSE /\ Len(loads) < MaxLoads
            /\ loads' = Append(loads, [NewLoad("buffer", <<>>, <<>>) EXCEPT
                                         !.pc = "reading", !.target = 0,
                                         !.calls = NoCalls])
    /\ UNCHANGED <<booted, fits, slot, models, display, text, camera, fitLocals>>

\* lines 184-189 and 80-82: file.arrayBuffer answers the drop handler, which
\* returns (undefined buffer), ends (rejection), or calls LoadModelFromBuffer,
\* which runs up to its await of disposeModel
DropRead(l, outcome) ==
    /\ l \in DOMAIN loads
    /\ loads[l].pc = "reading"
    /\ IF outcome = "buffer"
       THEN loads' = [loads EXCEPT ![l] = NewLoad("buffer", <<>>, <<>>)]
       ELSE loads' = SetPc(l, "aborted")
    /\ UNCHANGED <<booted, fits, slot, models, display, text, camera, fitLocals, lastOp>>

\* ------------------------------------------------------ the panel button
\* a button that re-triggers the load of the example model instead
ClickLoadsExample ==
    /\ booted
    /\ lastOp' = <<"ClickFit">>
    /\ LoadModelFromUrl(<<"#", "a">>, <<"a">>)
    /\ UNCHANGED <<booted, fits, slot, models, display, text, camera, fitLocals>>

\* lines 199-201: a click on "Fit to window" runs FitModelToWindow up to its
\* await of getBoxes (line 36), or to its return at line 33
ClickFit ==
    /\ booted
    /\ lastOp' = <<"ClickFit">>
    /\ IF FitReturnsEarly(slot, camera.controls)
       THEN fits' = fits
       ELSE /\ Len(fits) < MaxFits
            /\ fits' = Append(fits, [model |-> slot, pc |-> "fitting"])
    /\ UNCHANGED <<booted, loads, slot, models, display, text, camera, fitLocals>>

\* getBoxes answers a click's framer: with the boxes (lines 37-61), or by
\* throwing (the rejection is unhandled)
FitDone(i, ok) ==
    /\ i \in DOMAIN fits
    /\ fits[i].pc = "fitting"
    /\ IF ok THEN ApplyFit(fits[i].model) ELSE UNCHANGED <<camera, fitLocals>>
    /\ fits' = [fits EXCEPT ![i].pc = IF ok THEN "done" ELSE "threw"]
    /\ UNCHANGED <<booted, loads, slot, models, display, text, lastOp>>

\* ------------------------------------------------------ load continuations
\* a load that does not dispose
DisposeModelSkipped(target) == UNCHANGED <<models, slot>>

\* fragments.disposeModel (ModelIdentifier) completes: the model it looked up
\* is destroyed and leaves the slot
DisposeModel(target) ==
    /\ models' = models \ {target}
    /\ slot' = IF target # 0 /\ slot = target THEN 0 ELSE slot

\* lines 82-87 and 67 (buffer), lines 93-99 (url): the dispose has completed;
\* the indicator is shown and the load suspends on fragments.load or on fetch
DisposeDone(l) ==
    /\ l \in DOMAIN loads
    /\ loads[l].pc = "disposing"
    /\ DisposeModel(loads[l].target)
    /\ IF loads[l].kind = "url"
       THEN /\ ShowProgress("Downloading model...")
            /\ loads' = [loads EXCEPT ![l].pc = "fetching", ![l].calls.fetch = @ + 1]
       ELSE /\ ShowProgress("Loading model...")
            /\ loads' = [loads EXCEPT ![l].pc = "decoding", ![l].calls.decode = @ + 1]
    /\ UNCHANGED <<booted, fits, camera, fitLocals, lastOp>>

\* LoadModelFromUrl with progressBar.Hide () inside the try block: a rejected
\* fetch ends the load without hiding the indicator
FetchDoneHideInTry(l, ok) ==
    /\ l \in DOMAIN loads
    /\ loads[l].pc = "fetching"
    /\ loads' = IF ok THEN SetPc(l, "buffering") ELSE Fail(l, "fetch")
    /\ UNCHANGED <<booted, fits, slot, models, display, text, camera, fitLocals, lastOp>>

\* LoadModelFromUrl fetching a second time after a first fetch was rejected
FetchDoneRetry(l, ok) ==
    /\ l \in DOMAIN loads
    /\ loads[l].pc = "fetching"
    /\ IF ok
       THEN /\ loads' = SetPc(l, "buffering")
            /\ UNCHANGED <<display, text>>
       ELSE IF loads[l].calls.fetch < 2
            THEN /\ loads' = [loads EXCEPT ![l].calls.fetch = @ + 1]
                 /\ UNCHANGED <<display, text>>
            ELSE /\ loads' = Fail(l, "fetch")
                 /\ Hide
    /\ UNCHANGED <<booted, fits, slot, models, camera, fitLocals, lastOp>>

\* lines 99-100 and 103-106: fetch resolves and the load suspends on
\* file.arrayBuffer, or fetch rejects, which the catch swallows
FetchDone(l, ok) ==
    /\ l \in DOMAIN loads
    /\ loads[l].pc = "fetching"
    /\ IF ok
       THEN /\ loads' = SetPc(l, "buffering")
            /\ UNCHANGED <<display, text>>
       ELSE /\ loads' = Fail(l, "fetch")
            /\ Hide
    /\ UNCHANGED <<booted, fits, slot, models, camera, fitLocals, lastOp>>

\* LoadModelFromUrl without progressBar.SetText ('Loading model...') of line
\* 101: the decode is submitted under the text of the download
BufferDoneKeepsText(l, ok) ==
    /\ l \in DOMAIN loads
    /\ loads[l].pc = "buffering"
    /\ IF ok
       THEN /\ loads' = [loads EXCEPT ![l].pc = "decoding", ![l].calls.decode = @ + 1]
            /\ UNCHANGED <<display, text>>
       ELSE /\ loads' = Fail(l, "buffer")
            /\ Hide
    /\ UNCHANGED <<booted, fits, slot, models, camera, fitLocals, lastOp>>

\* lines 100-102, 67 and 103-106: file.arrayBuffer resolves and the load
\* suspends on fragments.load, or it rejects, which the catch swallows
BufferDone(l, ok) ==
    /\ l \in DOMAIN loads
    /\ loads[l].pc = "buffering"
    /\ IF ok
       THEN /\ loads' = [loads EXCEPT ![l].pc = "decoding", ![l].calls.decode = @ + 1]
            /\ display' = display
            /\ text' = "Loading model..."
       ELSE /\ loads' = Fail(l, "buffer")
            /\ Hide
    /\ UNCHANGED <<booted, fits, slot, models, camera, fitLocals, lastOp>>

\* a fragments.load that keeps the model already set under the identifier
SetModelIfAbsent(l, boxes) ==
    /\ slot' = IF slot = 0 THEN l ELSE slot
    /\ models' = models \cup {l}

\* fragments.load (buffer, { modelId: ModelIdentifier }) resolves: the decoded
\* model l, reporting `boxes`, is set in the slot
SetModel(l, boxes) ==
    /\ slot' = l
    /\ models' = models \cup {l}

\* lines 67-75: the record of load l once fragments.load has resolved with a
\* model reporting `boxes` and LoadModelInternal has called FitModelToWindow
Decoded(l, boxes) ==
    [loads EXCEPT ![l].boxes = boxes,
                  ![l].decodedAt = 1 + Cardinality({m \in DOMAIN loads : loads[m].decodedAt > 0}),
                  ![l].calls.framer = @ + 1]

\* LoadModelInternal with await FitModelToWindow in a finally block: the
\* framer is also called (and returns at line 33) when fragments.load rejects
DecodeDoneFitAlways(l, ok, boxes) ==
    /\ l \in DOMAIN loads
    /\ loads[l].pc = "decoding"
    /\ IF ok
       THEN /\ SetModel(l, boxes)
            /\ loads' = [Decoded(l, boxes) EXCEPT ![l].pc = "fitting"]
            /\ UNCHANGED <<display, text>>
       ELSE /\ loads' = [Fail(l, "decode") EXCEPT ![l].calls.framer = @ + 1]
            /\ Hide
            /\ UNCHANGED <<slot, models>>
    /\ UNCHANGED <<booted, fits, camera, fitLocals, lastOp>>

\* lines 67-77, 29-36 and 88/106: fragments.load resolves and the framer runs
\* up to its await of getBoxes (or returns at line 33, ending the load), or
\* fragments.load rejects, which the catch of line 76 swallows
DecodeDone(l, ok, boxes) ==
    /\ l \in DOMAIN loads
    /\ loads[l].pc = "decoding"
    /\ IF ok
       THEN /\ SetModel(l, boxes)
            /\ IF FitReturnsEarly(l, camera.controls)
               THEN /\ loads' = [Decoded(l, boxes) EXCEPT ![l].pc = "done"]
                    /\ Hide
               ELSE /\ loads' = [Decoded(l, boxes) EXCEPT ![l].pc = "fitting"]
                    /\ UNCHANGED <<display, text>>
       ELSE /\ loads' = Fail(l, "decode")
            /\ Hide
            /\ UNCHANGED <<slot, models>>
    /\ UNCHANGED <<booted, fits, camera, fitLocals, lastOp>>

\* LoadModelInternal without its try/catch: a getBoxes that throws ends the
\* load before progressBar.Hide ()
BoxesDoneUncaught(l, ok) ==
    /\ l \in DOMAIN loads
    /\ loads[l].pc = "fitting"
    /\ IF ok
       THEN /\ ApplyFit(l)
            /\ loads' = [loads EXCEPT ![l].pc = "done", ![l].framed = TRUE]
            /\ Hide
       ELSE /\ loads' = Fail(l, "boxes")
            /\ UNCHANGED <<camera, fitLocals, display, text>>
    /\ UNCHANGED <<booted, fits, slot, models, lastOp>>

\* lines 36-61, 75-77 and 88/106: getBoxes answers the framer of load l, which
\* applies the pose, or it throws, which the catch of line 76 swallows; either
\* way the load hides the indicator and ends
BoxesDone(l, ok) ==
    /\ l \in DOMAIN loads
    /\ loads[l].pc = "fitting"
    /\ IF ok
       THEN /\ ApplyFit(l)
            /\ loads' = [loads EXCEPT ![l].pc = "done", ![l].framed = TRUE]
       ELSE /\ loads' = Fail(l, "boxes")
            /\ UNCHANGED <<camera, fitLocals>>
    /\ Hide
    /\ UNCHANGED <<booted, fits, slot, models, lastOp>>

\* ------------------------------------------------------------- scene graph
\* every child of every model root, over all loads
RECURSIVE ChildCount(_)
ChildCount(i) == IF i = 0 THEN 0 ELSE Len(loads[i].children) + ChildCount(i - 1)

\* lines 68-74 and 150-153: the decoding service adds a child node to the root
\* of load l's model. The root exists, and is in the scene (onItemSet), from
\* inside fragments.load on; the 'childadded' listener exists only once
\* fragments.load has resolved and LoadModelInternal has resumed. When the
\* service adds its nodes is not in this repository: any moment after the
\* submission is taken. A node added under the listener gets every material
\* double-sided; one added before keeps the side its materials were created
\* with, the front side (the default of THREE.Material.side, which the
\* listener is there to change).
ChildAdded(l) ==
    /\ l \in DOMAIN loads
    /\ ChildCount(Len(loads)) < MaxChildren
    /\ \/ /\ loads[l].pc = "decoding"
          /\ loads' = [loads EXCEPT ![l].children = Append(@, "front")]
       \/ /\ loads[l].decodedAt > 0 /\ l \in models
          /\ loads' = [loads EXCEPT ![l].children = Append(@, "double")]
    /\ UNCHANGED <<booted, fits, slot, models, display, text, camera, fitLocals, lastOp>>

\* ------------------------------------------------------------ specification
Next ==
    \/ \E h \in Hashes : AppStart(h)
    \/ \E h \in Hashes : HashChange(h)
    \/ \E items \in Payloads : Drop(items)
    \/ \E l \in 1..MaxLoads, o \in {"buffer", "undefined", "rejected"} : DropRead(l, o)
    \/ ClickFit
    \/ \E i \in 1..MaxFits, ok \in BOOLEAN : FitDone(i, ok)
    \/ \E l \in 1..MaxLoads : DisposeDone(l)
    \/ \E l \in 1..MaxLoads, ok \in BOOLEAN : FetchDone(l, ok)
    \/ \E l \in 1..MaxLoads, ok \in BOOLEAN : BufferDone(l, ok)
    \/ \E l \in 1..MaxLoads, ok \in BOOLEAN, b \in BoxLists : DecodeDone(l, ok, b)
    \/ \E l \in 1..MaxLoads, ok \in BOOLEAN : BoxesDone(l, ok)

Spec == Init /\ [][Next]_vars

\* ------------------------------------------- the framer taken on its own
\* FitModelToWindow (world, fragments) for any world and any resident model:
\* the boxes a model may report, where the user may have left the camera, a
\* portrait or a landscape window, a camera with or without controls
FitBoxes ==
    {UnitBox, FarBox, PointBox,
     BoxOf(Vec(-3, 0, 1), Vec(-2, 4, 1)), BoxOf(Vec(0, -2, -5), Vec(6, -1, -4))}
FitBoxLists == UNION {[1..n -> FitBoxes] : n \in 0..MaxBoxes}
FitPositions == {Vec(100, 100, 100), Vec(1, 1, 1), Vec(0, 0, -10)}
FitAspects == {Scale \div 2, 2 * Scale}

\* a drop load that has decoded a model reporting `boxes` and has ended
LoadedModel(boxes) ==
    [kind |-> "buffer", hash |-> <<>>, url |-> <<>>, pc |-> "done",
     target |-> 0, pose0 |-> InitialCamera, boxes |-> boxes, failed |-> "",
     framed |-> TRUE,
     calls |-> [dispose |-> 1, fetch |-> 0, decode |-> 1, framer |-> 1],
     decodedAt |-> 1, children |-> <<>>]

InitFit ==
    /\ booted = TRUE
    /\ fits = <<>>
    /\ display = "none"
    /\ text = "Loading model..."
    /\ fitLocals = NoFit
    /\ lastOp = <<"none">>
    /\ \E boxes \in FitBoxLists, resident \in BOOLEAN :
        /\ loads = IF resident THEN <<LoadedModel(boxes)>> ELSE <<>>
        /\ slot = IF resident THEN 1 ELSE 0
        /\ models = IF resident THEN {1} ELSE {}
    /\ \E p \in FitPositions, a \in FitAspects, c \in BOOLEAN :
        camera = [InitialCamera EXCEPT !.position = p, !.aspect = a, !.controls = c]

NextFit ==
    \/ ClickFit
    \/ \E i \in 1..MaxFits, ok \in BOOLEAN : FitDone(i, ok)

SpecFit == InitFit /\ [][NextFit]_vars

\* the loads of LoadModelInternal with the decoding service adding nodes to
\* the model roots; the loads are those by URL (a dropped file reaches
\* LoadModelInternal the same way, and the button does not touch the nodes)
NextScene ==
    \/ \E h \in Hashes : AppStart(h)
    \/ \E h \in Hashes : HashChange(h)
    \/ \E l \in 1..MaxLoads : DisposeDone(l)
    \/ \E l \in 1..MaxLoads, ok \in BOOLEAN : FetchDone(l, ok)
    \/ \E l \in 1..MaxLoads, ok \in BOOLEAN : BufferDone(l, ok)
    \/ \E l \in 1..MaxLoads, ok \in BOOLEAN, b \in BoxLists : DecodeDone(l, ok, b)
    \/ \E l \in 1..MaxLoads, ok \in BOOLEAN : BoxesDone(l, ok)
    \/ \E l \in 1..MaxLoads : ChildAdded(l)

SpecScene == Init /\ [][NextScene]_vars

\* a suspended drop handler, load or framer run is resumed
Resume ==
    \/ \E l \in 1..MaxLoads, o \in {"buffer", "undefined", "rejected"} : DropRead(l, o)
    \/ \E l \in 1..MaxLoads : DisposeDone(l)
    \/ \E l \in 1..MaxLoads, ok \in BOOLEAN : FetchDone(l, ok)
    \/ \E l \in 1..MaxLoads, ok \in BOOLEAN : BufferDone(l, ok)
    \/ \E l \in 1..MaxLoads, ok \in BOOLEAN, b \in BoxLists : DecodeDone(l, ok, b)
    \/ \E l \in 1..MaxLoads, ok \in BOOLEAN : BoxesDone(l, ok)
    \/ \E i \in 1..MaxFits, ok \in BOOLEAN : FitDone(i, ok)

\* every external call returns or throws, and the event loop then resumes the
\* code that awaits it: while something is suspended, something is resumed
Fairness == WF_vars(Resume)

FairSpec == Spec /\ Fairness

\* ------------------------------------------------------------------ helpers
Loads == DOMAIN loads
\* load l has reached the end of LoadModelFromBuffer / LoadModelFromUrl
Finished(l) == loads[l].pc = "done"
\* load l is between new ProgressBar () and progressBar.Hide ()
Showing(l) == loads[l].pc \in {"fetching", "buffering", "decoding", "fitting"}
\* the step submits load l's buffer to fragments.load
Submits(l) == loads[l].pc # "decoding" /\ loads'[l].pc = "decoding"
\* the step ends load l
Ends(l) == loads[l].pc # "done" /\ loads'[l].pc = "done"
\* everything a load or the framer can change
Viewer == <<loads, fits, slot, models, display, text, camera, fitLocals>>

\* ------------------------------------------------------------------- claims
\* C1: for any interleaving of load triggers at most one model is resident,
\* and no buffer is submitted to fragments.load while a model of an earlier
\* load is resident in the slot.
C1_SingleSlot ==
    /\ [](Cardinality(models) <= 1)
    /\ [][\A l \in Loads : Submits(l) => slot' = 0]_vars

\* C2: LoadModelFromUrlHash with the empty string changes nothing: no load is
\* started (no dispose, fetch or decode), and the indicator, the slot and the
\* camera stay as they are.
C2_EmptyHashNoOp ==
    [][\A h \in Hashes :
        (AppStart(h) \/ HashChange(h)) /\ Len(h) = 0 => UNCHANGED Viewer]_vars

\* C2 witness: the handler ran with the empty hash while a model was resident
\* and another load was showing the indicator
C2_Witness ==
    /\ lastOp[1] = "HashChange"
    /\ lastOp[2] = <<>>
    /\ slot # 0
    /\ display = "inherit"

\* C3: a non-empty hash starts exactly one LoadModelFromUrl, whose url is the
\* hash without its first character, at app start and on hashchange.
C3_HashStripsFirstChar ==
    [][\A h \in Hashes :
        (AppStart(h) \/ HashChange(h)) /\ Len(h) > 0 =>
            /\ Len(loads') = Len(loads) + 1
            /\ SubSeq(loads', 1, Len(loads)) = loads
            /\ loads'[Len(loads')].kind = "url"
            /\ loads'[Len(loads')].pc = "disposing"
            /\ Len(loads'[Len(loads')].url) = Len(h) - 1
            /\ \A i \in 1..(Len(h) - 1) : loads'[Len(loads')].url[i] = h[i + 1]]_vars

\* C3 witness: '##a' was given and 'a' preceded by one '#' is being fetched
C3_Witness ==
    \E l \in Loads :
        /\ loads[l].hash = <<"#", "#", "a">>
        /\ loads[l].url = <<"#", "a">>
        /\ loads[l].pc = "fetching"

\* C4: a rejected fetch leaves the model that was resident before the load
\* disposed, submits no decode, makes no model of this load resident, and the
\* load ends with the indicator hidden.
C4_FetchRejected ==
    /\ [](\A l \in Loads : loads[l].failed = "fetch" =>
            /\ Finished(l)
            /\ loads[l].target \notin models
            /\ loads[l].target # 0 => slot # loads[l].target
            /\ l \notin models
            /\ slot # l)
    /\ [][\A l \in Loads : loads'[l].failed = "fetch" /\ loads[l].failed # "fetch" =>
            /\ ~Submits(l)
            /\ Ends(l)
            /\ display' = "none"]_vars

\* C4 witness: a load that found model 1 resident has ended on a rejected fetch
C4_Witness ==
    \E l \in Loads :
        /\ loads[l].failed = "fetch"
        /\ loads[l].target = 1
        /\ display = "none"

\* the loads have all finished, and one of them has shown the indicator
AllFinished ==
    /\ \E l \in Loads : Finished(l)
    /\ \A l \in Loads : loads[l].pc \in {"done", "aborted"}

\* C5: every load that has shown the indicator ends, hiding it as it ends,
\* whatever fetch, decode and framing answer (no load stays between its show
\* and its hide for ever, and it leaves that stretch only by ending); once all
\* loads have finished the indicator is hidden.
C5_IndicatorHidden ==
    /\ \A l \in 1..MaxLoads : []<>(l \in Loads => ~Showing(l))
    /\ [][\A l \in Loads : Showing(l) => Showing(l)' \/ Ends(l)]_vars
    /\ [][\A l \in Loads : Ends(l) => display' = "none"]_vars
    /\ [](AllFinished => display = "none")

\* C5 witness: two loads have finished, one of them on a failure in the framer
C5_Witness ==
    /\ Len(loads) = 2
    /\ AllFinished
    /\ \E l \in Loads : loads[l].failed = "boxes"
    /\ \E l \in Loads : loads[l].failed = ""

\* C6: a drop whose payload does not hold exactly one item starts no load and
\* disposes nothing: slot, indicator and camera are unchanged.
C6_MultiDropNoOp ==
    [][\A items \in Payloads : Drop(items) /\ Len(items) # 1 => UNCHANGED Viewer]_vars

\* C6 witness: two files were dropped while a model was resident
C6_Witness ==
    /\ lastOp[1] = "Drop"
    /\ Len(lastOp[2]) = 2
    /\ slot # 0

\* load l failed in its fetch (or the read of its body) or in its decode
FailedLoad(l) == loads[l].failed \in {"fetch", "buffer", "decode"}

\* C8 as stated: after a load whose fetch or decode failed has finished, the
\* resident model and the camera pose are those of before the load.
C8_PreviousStateKept ==
    \A l \in Loads : Finished(l) /\ FailedLoad(l) =>
        /\ slot = loads[l].target
        /\ camera = loads[l].pose0

\* C8 amended: a load whose fetch or decode fails never moves the camera (the
\* camera moves only when the framer of a click, or of a load that has not
\* failed so, applies its pose) and leaves no model of its own resident, but
\* the model that was resident when it was triggered has been disposed and is
\* not restored.
C8_FailedLoadDisposes ==
    /\ [](\A l \in Loads : FailedLoad(l) =>
            /\ Finished(l)
            /\ loads[l].target \notin models
            /\ loads[l].target # 0 => slot # loads[l].target
            /\ l \notin models
            /\ ~loads[l].framed)
    /\ [][camera' # camera =>
            \/ \E l \in Loads : ~FailedLoad(l)' /\ ~loads[l].framed /\ loads'[l].framed
            \/ \E i \in DOMAIN fits : fits[i].pc = "fitting" /\ fits'[i].pc = "done"]_vars

\* C8 witness: a load that found model 1 resident has ended on a failed decode
C8_Witness ==
    \E l \in Loads :
        /\ loads[l].failed = "decode"
        /\ loads[l].target = 1
        /\ slot = 0

\* C9 as stated: a click on the panel button starts a load of the example
\* model (dispose, fetch by name, decode).
C9_ClickStartsLoad ==
    [][ClickFit =>
        /\ Len(loads') = Len(loads) + 1
        /\ loads'[Len(loads')].kind = "url"
        /\ loads'[Len(loads')].pc = "disposing"]_vars

\* C9 amended: a click on the panel button ("Fit to window") runs the Camera
\* Framer on the resident model and starts no load: nothing is disposed,
\* fetched or decoded, and the indicator is untouched.
C9_ClickOnlyFits ==
    [][ClickFit =>
        /\ UNCHANGED <<loads, slot, models, display, text>>
        /\ \/ fits' = fits
           \/ slot # 0 /\ fits' = Append(fits, [model |-> slot, pc |-> "fitting"])]_vars

\* C9 witness: a click has started a framer run on the resident model
C9_Witness ==
    /\ lastOp = <<"ClickFit">>
    /\ Len(fits) = 1
    /\ fits[1].pc = "fitting"
    /\ fits[1].model = slot

\* C7: FitModelToWindow does nothing when no model is resident or the camera
\* has no controls: the camera keeps position, target, near and far, and no
\* framer run (that could throw) is started.
C7_FitNoOp ==
    [][ClickFit /\ (slot = 0 \/ ~camera.controls) => UNCHANGED Viewer]_vars

\* C7 witness: the button was clicked with no model resident, or with a model
\* resident and no controls, and no framer run exists
C7_Witness ==
    /\ lastOp = <<"ClickFit">>
    /\ slot = 0 \/ ~camera.controls
    /\ fits = <<>>

\* the least and the greatest of a set of numbers
Least(S) == CHOOSE x \in S : \A y \in S : x <= y
Greatest(S) == CHOOSE x \in S : \A y \in S : x >= y
\* coordinate k of all min and max corners of the boxes
Coords(boxes, k) ==
    {boxes[i].min[k] : i \in DOMAIN boxes} \cup {boxes[i].max[k] : i \in DOMAIN boxes}
Extent(boxes, k) == Greatest(Coords(boxes, k)) - Least(Coords(boxes, k))

\* C10: for a non-empty list of boxes the sphere the framer uses has the
\* midpoint of the box spanning all min and max corners as centre and half of
\* that box's diagonal as radius (squared radius = sum of the squared half
\* extents); the framer aims the camera at that centre.  For (-1,-1,-1)-(1,1,1)
\* and (1,1,1)-(3,3,3) the centre is (1,1,1).
C10_FramingSphere ==
    fitLocals.applied /\ fitLocals.boxes # <<>> =>
        LET boxes == fitLocals.boxes
            sphere == fitLocals.boundingSphere
        IN  /\ \A k \in 1..3 :
                2 * sphere.center[k] =
                    Least(Coords(boxes, k)) + Greatest(Coords(boxes, k))
            /\ 4 * sphere.radiusSq =
                Extent(boxes, 1) * Extent(boxes, 1) + Extent(boxes, 2) * Extent(boxes, 2)
                    + Extent(boxes, 3) * Extent(boxes, 3)
            /\ sphere.radius * sphere.radius <= sphere.radiusSq
            /\ sphere.radiusSq < (sphere.radius + 1) * (sphere.radius + 1)
            /\ camera.target = sphere.center
            /\ boxes = <<UnitBox, FarBox>> =>
                sphere.center = Vec(1, 1, 1) /\ sphere.radiusSq = 12 * Scale * Scale

\* C10 witness: the framer has been applied to the two boxes of the example
C10_Witness ==
    /\ fitLocals.applied
    /\ fitLocals.boxes = <<UnitBox, FarBox>>
    /\ fitLocals.boundingSphere.center = Vec(1, 1, 1)

\* load l has run to its end, or its drop was given up before any load began
Settled(l) == loads[l].pc \in {"done", "aborted"}
\* the decode of load l has resolved with a model
DecodeOk(l) == loads[l].decodedAt > 0
\* the load whose decode resolved last (0: no decode has resolved yet)
LastDecoded ==
    IF \A l \in Loads : ~DecodeOk(l) THEN 0
    ELSE CHOOSE l \in Loads :
            DecodeOk(l) /\ \A m \in Loads : loads[m].decodedAt <= loads[l].decodedAt

\* C11: a load triggered while others are in flight cancels none of them: the
\* triggering step leaves every earlier load's record as it was and every
\* load goes on to its end; a resident model is always the one whose decode
\* resolved last, and once all loads have ended with every decode resolved
\* that model is resident.
C11_LastDecodeWins ==
    /\ [][Len(loads') > Len(loads) => SubSeq(loads', 1, Len(loads)) = loads]_vars
    /\ \A l \in 1..MaxLoads : []<>(l \in Loads => Settled(l))
    /\ [](slot # 0 => slot = LastDecoded)
    /\ []((/\ LastDecoded # 0
           /\ \A l \in Loads : Settled(l) /\ (Finished(l) => DecodeOk(l)))
          => slot = LastDecoded)

\* C11 witness: two loads overlapped, both decodes resolved, the decode of the
\* load triggered first resolved last and its model is the resident one
C11_Witness ==
    /\ Len(loads) = 2
    /\ Finished(1) /\ Finished(2)
    /\ loads[2].target = 0
    /\ loads[2].decodedAt = 1 /\ loads[1].decodedAt = 2
    /\ slot = 1

\* the step takes load l to position pc
Enters(l, pc) == loads[l].pc # pc /\ loads'[l].pc = pc

\* the steps of one load, in the order of LoadModelFromBuffer / LoadModelFromUrl
\* and LoadModelInternal, with what each of them does to the slot and to the
\* indicator
LoadOrder(l) ==
    /\ Enters(l, "disposing") => loads[l].pc = "reading"
    /\ Enters(l, "fetching") =>
          /\ loads[l].pc = "disposing" /\ loads[l].kind = "url"
          /\ loads[l].target \notin models'
          /\ display' = "inherit" /\ text' = "Downloading model..."
    /\ Enters(l, "buffering") => loads[l].pc = "fetching"
    /\ Enters(l, "decoding") =>
          /\ \/ loads[l].pc = "disposing" /\ loads[l].kind = "buffer"
                   /\ loads[l].target \notin models' /\ display' = "inherit"
             \/ loads[l].pc = "buffering" /\ display' = display
          /\ text' = "Loading model..."
    /\ Enters(l, "fitting") => loads[l].pc = "decoding" /\ slot' = l
    /\ Enters(l, "done") =>
          /\ loads[l].pc \in {"fetching", "buffering", "decoding", "fitting"}
          /\ display' = "none"
    /\ (~loads[l].framed /\ loads'[l].framed) =>
          loads[l].pc = "fitting" /\ loads'[l].pc = "done"

\* one load alone: what the slot and the indicator are at each of its steps
AloneOrder ==
    LET l == loads[1] IN
    /\ l.pc = "disposing" => text = ""
    /\ l.pc \in {"fetching", "buffering"} =>
          display = "inherit" /\ text = "Downloading model..." /\ models = {}
    /\ l.pc = "decoding" =>
          display = "inherit" /\ text = "Loading model..." /\ models = {}
    /\ l.pc = "fitting" =>
          display = "inherit" /\ text = "Loading model..." /\ slot = 1 /\ ~l.framed
    /\ l.pc = "done" => display = "none"
    /\ l.framed => slot = 1
    /\ l.failed = "fetch" => text = "Downloading model..."

\* C12: every load takes its steps in the order dispose, indicator shown
\* ('Downloading model...' and the fetch first for a URL load), 'Loading
\* model...', decode submission, framing after a decode that succeeded,
\* indicator hidden; a text is only written by the step that starts a fetch or
\* submits a decode, so a URL load whose fetch failed never writes 'Loading
\* model...'; with one load alone the indicator and the slot are as these
\* steps left them.
C12_StepOrder ==
    /\ [][\A l \in Loads : LoadOrder(l)]_vars
    /\ [][text' # text => \E l \in Loads : Enters(l, "fetching") \/ Enters(l, "decoding")]_vars
    /\ [](\A l \in Loads : loads[l].failed = "fetch" => loads[l].calls.decode = 0)
    /\ [](Len(loads) = 1 => AloneOrder)

\* C12 witness: a URL load, alone, has run through all its steps and framed
\* its model
C12_Witness ==
    /\ Len(loads) = 1
    /\ loads[1].kind = "url" /\ Finished(1) /\ loads[1].framed
    /\ slot = 1 /\ display = "none" /\ text = "Loading model..."

\* C12 witness: a URL load, alone, has ended on a fetch that failed
C12_WitnessFetchFailed ==
    /\ Len(loads) = 1
    /\ loads[1].failed = "fetch" /\ text = "Downloading model..."

\* C13: a load calls the framer once, in the step in which its decode
\* resolves, and not at all when its fetch, its buffer read or its decode
\* fails; only a load whose framer was called applies a pose; a getBoxes that
\* throws inside the framer ends the load like a success does, the indicator
\* being hidden by that very step.
C13_FramerOnce ==
    /\ [](\A l \in Loads : loads[l].calls.framer = IF DecodeOk(l) THEN 1 ELSE 0)
    /\ [](\A l \in Loads : FailedLoad(l) => loads[l].calls.framer = 0 /\ ~loads[l].framed)
    /\ [](\A l \in Loads : loads[l].framed => loads[l].calls.framer = 1)
    /\ [][\A l \in Loads : loads'[l].calls.framer # loads[l].calls.framer =>
             loads[l].pc = "decoding" /\ slot' = l /\ l \in models']_vars
    /\ [][\A l \in Loads : (loads[l].failed # "boxes" /\ loads'[l].failed = "boxes") =>
             /\ loads[l].pc = "fitting" /\ Ends(l)
             /\ display' = "none"
             /\ camera' = camera]_vars

\* C13 witness: the framer of a load threw after its decode had succeeded; the
\* load has ended and the indicator is hidden
C13_Witness ==
    \E l \in Loads :
        /\ loads[l].failed = "boxes" /\ Finished(l)
        /\ loads[l].calls.framer = 1 /\ slot = l
        /\ display = "none"

\* C14: no load retries: it issues at most one disposeModel, one fetch and one
\* fragments.load; a failed fetch or decode is the load's only one, nothing
\* follows it, and a load that has ended issues no further call.
C14_NoRetry ==
    /\ [](\A l \in Loads :
            /\ loads[l].calls.dispose <= 1
            /\ loads[l].calls.fetch <= 1
            /\ loads[l].calls.decode <= 1)
    /\ [](\A l \in Loads :
            /\ loads[l].failed = "fetch" =>
                  loads[l].calls.fetch = 1 /\ loads[l].calls.decode = 0
            /\ loads[l].failed = "decode" =>
                  loads[l].calls.decode = 1 /\ ~DecodeOk(l) /\ Finished(l))
    /\ [][\A l \in Loads : Settled(l) => loads'[l] = loads[l]]_vars

\* C14 witness: a URL load has ended on a rejected fetch and a dropped file's
\* load on a rejected decode, each after a single call
C14_Witness ==
    /\ \E l \in Loads : loads[l].failed = "fetch" /\ loads[l].calls.fetch = 1
    /\ \E l \in Loads : loads[l].failed = "decode" /\ loads[l].calls.decode = 1
                           /\ loads[l].kind = "buffer"

\* C15: each child under the resident model's root has only double-sided
\* materials, whenever it was added, the time before fragments.load returned
\* the model included.
C15_DoubleSided ==
    \A l \in Loads : slot = l =>
        \A i \in DOMAIN loads[l].children : loads[l].children[i] = "double"

\* the step in which a framer run, of a load or of the button, applies its pose
FramerApplies ==
    \/ \E l \in Loads : ~loads[l].framed /\ loads'[l].framed
    \/ \E i \in DOMAIN fits : fits[i].pc = "fitting" /\ fits'[i].pc = "done"

\* the distance line 53 computes for the sphere the framer last used
FitDistance(cam) ==
    Quot(fitLocals.boundingSphere.radius * SinScale, SinDeg(FieldOfView(cam)))

\* eye lies from `center` towards `position`, `distance` away (to the
\* precision of the fixed-point unit vector)
AlongRay(eye, center, position, distance) ==
    /\ \A k \in 1..3 : (eye[k] - center[k]) * (position[k] - center[k]) >= 0
    /\ 20 * Length(VSub(eye, center)) >= 19 * distance - 20
    /\ 20 * Length(VSub(eye, center)) <= 21 * distance + 20

\* C16: when the framer applies a pose for a sphere of positive radius, the
\* new eye lies at the computed distance from the centre, in the direction
\* from the centre to the position the camera had, and differs from the
\* target, the case of a camera placed exactly at the centre included.
C16_EyeOffTarget ==
    [][FramerApplies /\ fitLocals'.boundingSphere.radius > 0 =>
          /\ camera'.position # camera'.target
          /\ AlongRay(camera'.position, camera'.target, camera.position,
                      FitDistance(camera)')]_vars

\* the same with the camera away from the centre
C16_AwayFromCentre ==
    [][FramerApplies /\ fitLocals'.boundingSphere.radius > 0
          /\ camera.position # fitLocals'.boundingSphere.center =>
          /\ camera'.position # camera'.target
          /\ AlongRay(camera'.position, camera'.target, camera.position,
                      FitDistance(camera)')]_vars

\* C17: after every application of the framer near is 1 and far is 100 times
\* the computed distance, and far is greater than near, whatever the resident
\* model reports: no boxes, or boxes of zero extent, included.
C17_ClipPlanes ==
    fitLocals.applied =>
        /\ camera.near = Scale
        /\ camera.far = 100 * FitDistance(camera)
        /\ camera.far > camera.near

\* near and far as lines 56-57 set them, whatever their order
C17_NearFarSet ==
    fitLocals.applied =>
        /\ camera.near = Scale
        /\ camera.far = 100 * FitDistance(camera)
        /\ camera.far > camera.near <=> 100 * FitDistance(camera) > Scale

\* the text load l wrote last
TextOf(l) ==
    IF loads[l].pc \in {"fetching", "buffering"} THEN "Downloading model..."
    ELSE "Loading model..."

\* C18: the indicator is visible whenever some load is between its show and
\* its hide, so the hide of one load does not hide it while another load is
\* still fetching or decoding, and the text on display is the text of a load
\* that is between its show and its hide (the most recently started one).
C18_VisibleWhileLoading ==
    (\E l \in Loads : Showing(l)) =>
        /\ display = "inherit"
        /\ \E l \in Loads : Showing(l) /\ text = TextOf(l)

\* C19: the framer applies a pose only from the boxes of the model that is
\* resident at that moment: a run that another load's dispose overtook while
\* it was suspended on getBoxes does not aim the camera at the disposed model.
C19_FramesResidentOnly ==
    [][/\ \A l \in Loads : (~loads[l].framed /\ loads'[l].framed) => slot = l /\ l \in models
       /\ \A i \in DOMAIN fits : (fits[i].pc = "fitting" /\ fits'[i].pc = "done") =>
             slot = fits[i].model /\ fits[i].model \in models]_vars

\* the load triggered last (0: none), drops given up before loading left out
LastTriggered ==
    LET started == {l \in Loads : loads[l].pc # "aborted"}
    IN  IF started = {} THEN 0
        ELSE CHOOSE l \in started : \A m \in started : m <= l

\* C20: once all triggered loads have ended, a resident model is the one
\* decoded by the load triggered last: the model of a superseded load is not
\* left in the slot, also when the later load failed.
C20_LatestLoadResident ==
    (Loads # {} /\ \A l \in Loads : Settled(l)) =>
        slot = 0 \/ slot = LastTriggered

====
